---- MODULE Spec2Model ----
(***************************************************************************)
(* LZW compression / decompression of WORK/lzwcoding.py (Spec, LiveSpec)   *)
(* and the earlier compress of ProgramLZW.py (ProgramSpec).                *)
(*                                                                         *)
(* A symbol is a one-character string, a sequence (Python str) is a tuple  *)
(* of symbols, a dict is a function whose DOMAIN is its key set.  The      *)
(* encoder and the decoder are modelled one loop iteration per action;     *)
(* an uncaught Python exception ends the call in pc = "raised" with the    *)
(* exception's class in err.                                               *)
(***************************************************************************)
EXTENDS Integers, Sequences, FiniteSets, TLC

\* ---------------------------------------------------------------- bounds
MaxLen    == 7   \* longest text made of the two lowest symbols of the table
MaxBadLen == 3   \* longest text over the whole table and an unknown symbol
MaxCodes  == 4   \* longest code list typed in for decompression
MaxCalls  == 2   \* compress calls made on the same table object
MaxSize   == 1   \* largest code width typed in at the menu
CharRange == 2   \* characters range(256) runs over, scaled: 2^1 for 2^8

\* ------------------------------------------------------------ dictionaries
EmptyDict == [k \in {} |-> 0]

\* d[k] = v of a Python dict: insert or overwrite
Put(d, k, v) == [x \in (DOMAIN d) \cup {k} |-> IF x = k THEN v ELSE d[x]]

Values(d) == {d[k] : k \in DOMAIN d}

\* len(d)
DictLen(d) == Cardinality(DOMAIN d)

\* the characters in code-point order
CharSet == <<"a", "b", "c", "d", "e", "f", "g", "h">>

\* chr(i)
chr(i) == CharSet[i + 1]

\* a symbol that is a key of no table
Unknown == "x"

\* {chr(i): i for i in range(n)}
CharToCode(n) == [s \in {<<chr(i)>> : i \in 0..(n - 1)} |->
                    CHOOSE i \in 0..(n - 1) : <<chr(i)>> = s]

\* {i: chr(i) for i in range(n)}
CodeToChar(n) == [i \in 0..(n - 1) |-> <<chr(i)>>]

\* the test table {"A": 65, "B": 66} and its mirror
TestDictionary == [s \in {<<"A">>, <<"B">>} |-> IF s = <<"A">> THEN 65 ELSE 66]
TestCodeToChar == [i \in {65, 66} |-> IF i = 65 THEN <<"A">> ELSE <<"B">>]

\* initial_dict = {chr(i): i for i in range(256)}, whatever size is typed in
MainInitialDict(sz) == CharToCode(CharRange)

\* initial_code_to_char_dict = {i: chr(i) for i in range(2**size)}
MainCodeToChar(sz) == CodeToChar(2 ^ sz)

\* the (size, encode table, decode table) triples the callers set up:
\* main() for each size typed in, and direct calls with a hand-made table
Configs ==
  { [origin |-> "main", size |-> sz, dictionary |-> MainInitialDict(sz),
     code_to_char |-> MainCodeToChar(sz)] : sz \in 0..MaxSize }
  \cup
  { [origin |-> "direct", size |-> 0, dictionary |-> CharToCode(1),
     code_to_char |-> CodeToChar(1)],
    [origin |-> "direct", size |-> 8, dictionary |-> TestDictionary,
     code_to_char |-> TestCodeToChar] }

SeqsUpTo(S, n) == UNION {[1..k -> S] : k \in 0..n}

Alphabet(dict) == {s[1] : s \in DOMAIN dict}

\* the symbols of the table with the two lowest codes
LowSymbols(dict) ==
  {s[1] : s \in {k \in DOMAIN dict :
                   Cardinality({j \in DOMAIN dict : dict[j] < dict[k]}) < 2}}

\* the texts a caller passes to compress
Texts(dict) ==
  SeqsUpTo(LowSymbols(dict), MaxLen)
    \cup SeqsUpTo(Alphabet(dict) \cup {Unknown}, MaxBadLen)

\* the code lists a user types in
CodeLists(c2c, sz) ==
  SeqsUpTo((DOMAIN c2c) \cup ((2 ^ sz)..(2 ^ sz + MaxCodes - 2)), MaxCodes)

\* ------------------------------------------------------------------ state
VARIABLES
  origin,                                        \* who makes the calls
  size, dictionary, initial_code_to_char_dict,   \* caller-owned arguments
  text, code_list,                               \* inputs of the calls
  calls, first,                                  \* calls made, first result
  c_pc, c_err, c_i, c_buffer, c_new_dict, c_next_code,
  c_output_codes, c_table_data, c_sizes,         \* compress
  d_pc, d_err, d_i, d_buffer, d_new_dict, d_next_code_val,
  d_output, d_table_data, d_sizes,               \* decompress
  p_pc, p_err, p_i, p_buffer, p_output, p_next_code,
  p_emitted, p_before, p_calls, p_first          \* ProgramLZW.compress

cfgvars == <<origin, size>>
cvars == <<c_pc, c_err, c_i, c_buffer, c_new_dict, c_next_code,
           c_output_codes, c_table_data, c_sizes>>
dvars == <<d_pc, d_err, d_i, d_buffer, d_new_dict, d_next_code_val,
           d_output, d_table_data, d_sizes>>
pvars == <<p_pc, p_err, p_i, p_buffer, p_output, p_next_code,
           p_emitted, p_before, p_calls, p_first>>
vars == <<origin, size, dictionary, initial_code_to_char_dict, text,
          code_list, calls, first, cvars, dvars, pvars>>

NoResult == [codes |-> <<>>, table |-> EmptyDict, status |-> "none"]

\* no call of ProgramLZW.compress has been made
ProgramIdle ==
  /\ p_pc = "idle" /\ p_err = "none" /\ p_i = 0 /\ p_buffer = <<>>
  /\ p_output = <<>> /\ p_next_code = 0
  /\ p_emitted = <<>> /\ p_before = EmptyDict
  /\ p_calls = 0 /\ p_first = [output |-> <<>>, status |-> "none"]

Init ==
  /\ \E cfg \in Configs :
       /\ origin = cfg.origin
       /\ size = cfg.size
       /\ dictionary = cfg.dictionary
       /\ initial_code_to_char_dict = cfg.code_to_char
  /\ text = <<>>
  /\ code_list = <<>>
  /\ calls = 0
  /\ first = NoResult
  /\ c_pc = "idle" /\ c_err = "none" /\ c_i = 0 /\ c_buffer = <<>>
  /\ c_new_dict = EmptyDict /\ c_next_code = 0
  /\ c_output_codes = <<>> /\ c_table_data = <<>> /\ c_sizes = <<>>
  /\ d_pc = "idle" /\ d_err = "none" /\ d_i = 0 /\ d_buffer = <<>>
  /\ d_new_dict = EmptyDict /\ d_next_code_val = 0
  /\ d_output = <<>> /\ d_table_data = <<>> /\ d_sizes = <<>>
  /\ ProgramIdle

\* --------------------------------------------------------------- compress

\* slip: the first learned code is the last initial code
FirstCodeBelow(sz) == 2 ^ sz - 1

\* slip: the first learned code is one too high
FirstCodeOffByOne(sz) == 2 ^ sz + 1

\* next_code = 2 ** size
FirstCode(sz) == 2 ^ sz

\* new_dict = {symbol: memory for symbol, memory in dictionary.items()}
SeedEncoder(dict) == [s \in DOMAIN dict |-> dict[s]]

\* slip: new_dict = dictionary, the working dictionary is the caller's object
CallerTableAliased(dict, nd) == nd

\* what the caller's table object holds after a write to new_dict:
\* new_dict is a separate object, the write does not reach the caller's table
CallerTable(dict, nd) == dict

\* slip: next_code += 2
NextCodeSkips(next_code) == next_code + 2

\* next_code += 1
NextCode(next_code) == next_code + 1

\* slip: output_code = new_dict[entry_wc], the code just assigned
OutputCodeOfEntry(nd, buffer, entry_wc) == nd[entry_wc]

\* output_code = new_dict[buffer]
OutputCode(nd, buffer, entry_wc) == nd[buffer]

\* slip: buffer = "" after an emission
ResetBufferEmpty(char_c) == <<>>

\* buffer = char_c
ResetBuffer(char_c) == <<char_c>>

\* if entry_wc in new_dict
InDict(entry_wc, nd) == entry_wc \in DOMAIN nd

\* f"<{output_code}>" if output_code >= (2**size) else buffer
Sortie(output_code, buffer, sz) ==
  IF output_code >= 2 ^ sz
    THEN [code |-> <<output_code>>, text |-> <<>>]
    ELSE [code |-> <<>>, text |-> buffer]

NoSortie == [code |-> <<>>, text |-> <<>>]

\* f"{entry_wc} = <{next_code}>"
Dictionnaire(entry, code) == [entry |-> entry, code |-> <<code>>]

NoDictionnaire == [entry |-> <<>>, code |-> <<>>]

\* lines 9-19: the locals of a new call
CompressEnter ==
  /\ c_buffer' = <<>>
  /\ c_output_codes' = <<>>
  /\ c_table_data' = <<>>
  /\ c_sizes' = <<>>
  /\ c_next_code' = FirstCode(size)
  /\ c_new_dict' = SeedEncoder(dictionary)
  /\ c_i' = 0
  /\ c_err' = "none"
  /\ c_pc' = "loop"
  /\ calls' = calls + 1

\* compress(text, initial_dict, size): the first call on the table
CompressCall ==
  /\ c_pc = "idle" /\ d_pc = "idle" /\ calls = 0
  /\ \E t \in Texts(dictionary) : text' = t
  /\ first' = first
  /\ CompressEnter
  /\ UNCHANGED <<cfgvars, pvars, initial_code_to_char_dict,
                 dictionary, code_list, dvars>>

\* a further call with the same text, table object and size
CompressAgain ==
  /\ c_pc \in {"returned", "raised"} /\ d_pc = "idle"
  /\ calls >= 1 /\ calls < MaxCalls
  /\ first' = IF calls = 1
                THEN [codes |-> c_output_codes, table |-> c_new_dict,
                      status |-> c_pc]
                ELSE first
  /\ CompressEnter
  /\ UNCHANGED <<cfgvars, pvars, initial_code_to_char_dict,
                 dictionary, text, code_list, dvars>>

\* one iteration of "for char_c in text", branch "entry_wc in new_dict"
CompressExtend ==
  /\ c_pc = "loop" /\ c_i < Len(text)
  /\ LET char_c   == text[c_i + 1]
         entry_wc == Append(c_buffer, char_c)
     IN /\ InDict(entry_wc, c_new_dict)
        /\ c_buffer' = entry_wc
        /\ c_table_data' = Append(c_table_data,
             [w |-> c_buffer, c |-> <<char_c>>, wc |-> entry_wc,
              sortie |-> NoSortie, dictionnaire |-> NoDictionnaire])
  /\ c_i' = c_i + 1
  /\ UNCHANGED <<cfgvars, pvars, initial_code_to_char_dict,
                 dictionary, text, code_list, calls, first, dvars,
                 c_pc, c_err, c_new_dict, c_next_code, c_output_codes, c_sizes>>

\* one iteration of "for char_c in text", branch else
CompressAdmit ==
  /\ c_pc = "loop" /\ c_i < Len(text)
  /\ LET char_c   == text[c_i + 1]
         entry_wc == Append(c_buffer, char_c)
         nd       == Put(c_new_dict, entry_wc, c_next_code)
     IN /\ ~InDict(entry_wc, c_new_dict)
        /\ c_new_dict' = nd
        /\ dictionary' = CallerTable(dictionary, nd)
        /\ c_next_code' = NextCode(c_next_code)
        /\ IF c_buffer \in DOMAIN nd
             THEN /\ c_output_codes' =
                       Append(c_output_codes, OutputCode(nd, c_buffer, entry_wc))
                  /\ c_sizes' = Append(c_sizes, DictLen(nd))
                  /\ c_buffer' = ResetBuffer(char_c)
                  /\ c_table_data' = Append(c_table_data,
                       [w |-> c_buffer, c |-> <<char_c>>, wc |-> entry_wc,
                        sortie |-> Sortie(OutputCode(nd, c_buffer, entry_wc),
                                          c_buffer, size),
                        dictionnaire |-> Dictionnaire(entry_wc, c_next_code)])
                  /\ c_i' = c_i + 1
                  /\ UNCHANGED <<c_pc, c_err>>
             ELSE \* new_dict[buffer] raises KeyError
                  /\ c_pc' = "raised"
                  /\ c_err' = "KeyError"
                  /\ UNCHANGED <<c_output_codes, c_sizes, c_buffer,
                                 c_table_data, c_i>>
  /\ UNCHANGED <<cfgvars, pvars, initial_code_to_char_dict,
                 text, code_list, calls, first, dvars>>

\* slip: the final flush is left out
NeedsFlushNever(buffer) == FALSE

\* if buffer:
NeedsFlush(buffer) == buffer # <<>>

\* after the loop: "if buffer:" flush, then return
CompressReturn ==
  /\ c_pc = "loop" /\ c_i = Len(text)
  /\ IF NeedsFlush(c_buffer)
       THEN IF c_buffer \in DOMAIN c_new_dict
              THEN /\ c_output_codes' =
                        Append(c_output_codes, c_new_dict[c_buffer])
                   /\ c_sizes' = Append(c_sizes, DictLen(c_new_dict))
                   /\ c_table_data' = Append(c_table_data,
                        [w |-> c_buffer, c |-> <<>>, wc |-> c_buffer,
                         sortie |-> Sortie(c_new_dict[c_buffer], c_buffer, size),
                         dictionnaire |-> NoDictionnaire])
                   /\ c_pc' = "returned"
                   /\ c_err' = c_err
              ELSE \* new_dict[buffer] raises KeyError
                   /\ c_pc' = "raised"
                   /\ c_err' = "KeyError"
                   /\ UNCHANGED <<c_output_codes, c_sizes, c_table_data>>
       ELSE /\ c_pc' = "returned"
            /\ UNCHANGED <<c_err, c_output_codes, c_sizes, c_table_data>>
  /\ UNCHANGED <<cfgvars, pvars, initial_code_to_char_dict,
                 dictionary, text, code_list, calls, first, dvars,
                 c_i, c_buffer, c_new_dict, c_next_code>>

\* ------------------------------------------------------------- decompress

\* new_dict = {}; for memory, symbol in ....items(): new_dict[memory] = symbol
SeedDecoder(c2c) == [m \in DOMAIN c2c |-> c2c[m]]

\* slip: new_dict = initial_code_to_char_dict, no copy is made
DecoderCallerTableAliased(c2c, nd) == nd

\* what the caller's decode table holds after a write to new_dict:
\* new_dict was filled entry by entry, the write does not reach the argument
DecoderCallerTable(c2c, nd) == c2c

\* if current_code in new_dict
CodeKnown(current_code, nd) == current_code \in DOMAIN nd

\* slip: the else branch takes the previous entry as it is
SelfReferenceDropped(buffer) == buffer

\* slip: entry = buffer + buffer[-1]
SelfReferenceLast(buffer) == Append(buffer, buffer[Len(buffer)])

\* else: entry = buffer + buffer[0]
SelfReference(buffer) == Append(buffer, buffer[1])

\* slip: the new entry is extended with the previous entry's first symbol
NewDictEntryFromPrev(prev_buffer, entry) == Append(prev_buffer, prev_buffer[1])

\* slip: the new entry is built on entry instead of prev_buffer
NewDictEntryOnEntry(prev_buffer, entry) == Append(entry, entry[1])

\* new_dict_entry_string = prev_buffer + entry[0]
NewDictEntry(prev_buffer, entry) == Append(prev_buffer, entry[1])

\* slip: the increment is left out
DecNextCodeStuck(next_code_val) == next_code_val

\* next_code_val += 1
DecNextCode(next_code_val) == next_code_val + 1

\* f"{next_code_val} = '{new_dict_entry_string}'"
DecDictionnaire(code, entry) == [code |-> <<code>>, entry |-> entry]

\* lines 70-94: the locals of the call and the first code
DecompressEnter(codes) ==
  LET nd == SeedDecoder(initial_code_to_char_dict)
  IN /\ code_list' = codes
     /\ d_new_dict' = nd
     /\ d_next_code_val' = FirstCode(size)
     /\ d_sizes' = IF codes # <<>> /\ CodeKnown(codes[1], nd)
                    THEN <<DictLen(nd)>> ELSE <<>>
     /\ IF codes = <<>>
          THEN \* code_list[0] raises IndexError
               /\ d_pc' = "raised" /\ d_err' = "IndexError"
               /\ d_output' = <<>> /\ d_buffer' = <<>>
               /\ d_table_data' = <<>> /\ d_i' = 0
          ELSE IF ~CodeKnown(codes[1], nd)
          THEN \* new_dict[current_code] raises KeyError
               /\ d_pc' = "raised" /\ d_err' = "KeyError"
               /\ d_output' = <<>> /\ d_buffer' = <<>>
               /\ d_table_data' = <<>> /\ d_i' = 0
          ELSE /\ d_pc' = "loop" /\ d_err' = "none"
               /\ d_output' = nd[codes[1]]
               /\ d_buffer' = nd[codes[1]]
               /\ d_table_data' =
                    << [code |-> codes[1], w |-> <<>>, entry |-> nd[codes[1]],
                        new_dict_entry_string |-> <<>>,
                        output |-> nd[codes[1]],
                        dictionnaire |-> [code |-> <<>>, entry |-> <<>>]] >>
               /\ d_i' = 1

\* decompress(compressed_code_list, initial_code_to_char_dict, size) on a
\* list typed in by the user
DecompressCall ==
  /\ c_pc = "idle" /\ d_pc = "idle" /\ calls = 0
  /\ \E codes \in CodeLists(initial_code_to_char_dict, size) :
       DecompressEnter(codes)
  /\ UNCHANGED <<cfgvars, pvars, initial_code_to_char_dict,
                 dictionary, text,
                 calls, first, cvars>>

\* decompress on the codes compress returned
DecompressRoundTrip ==
  /\ c_pc = "returned" /\ d_pc = "idle"
  /\ DecompressEnter(c_output_codes)
  /\ UNCHANGED <<cfgvars, pvars, initial_code_to_char_dict,
                 dictionary, text,
                 calls, first, cvars>>

\* lines 108-125: what both branches of the loop body do with entry
DecompressRegister(current_code, entry) ==
  IF entry = <<>>
    THEN \* entry[0] raises IndexError, after "output += entry"
         /\ d_pc' = "raised" /\ d_err' = "IndexError"
         /\ d_output' = d_output \o entry
         /\ UNCHANGED <<d_new_dict, d_next_code_val, d_buffer, d_table_data,
                        d_sizes, d_i>>
    ELSE LET new_dict_entry_string == NewDictEntry(d_buffer, entry)
             nd == Put(d_new_dict, d_next_code_val, new_dict_entry_string)
         IN /\ d_output' = d_output \o entry
            /\ d_new_dict' = nd
            /\ d_next_code_val' = DecNextCode(d_next_code_val)
            /\ d_buffer' = entry
            /\ d_sizes' = Append(d_sizes, DictLen(nd))
            /\ d_table_data' = Append(d_table_data,
                 [code |-> current_code, w |-> d_buffer, entry |-> entry,
                  new_dict_entry_string |-> new_dict_entry_string,
                  output |-> entry,
                  dictionnaire |->
                    DecDictionnaire(d_next_code_val, new_dict_entry_string)])
            /\ d_i' = d_i + 1
            /\ UNCHANGED <<d_pc, d_err>>

\* one iteration of "for i in range(1, len(code_list))", code in new_dict
DecompressKnown ==
  /\ d_pc = "loop" /\ d_i < Len(code_list)
  /\ LET current_code == code_list[d_i + 1]
     IN /\ CodeKnown(current_code, d_new_dict)
        /\ DecompressRegister(current_code, d_new_dict[current_code])
  /\ initial_code_to_char_dict' =
       DecoderCallerTable(initial_code_to_char_dict, d_new_dict')
  /\ UNCHANGED <<cfgvars, pvars, dictionary, text, code_list, calls, first, cvars>>

\* one iteration of "for i in range(1, len(code_list))", branch else
DecompressUnknown ==
  /\ d_pc = "loop" /\ d_i < Len(code_list)
  /\ LET current_code == code_list[d_i + 1]
     IN /\ ~CodeKnown(current_code, d_new_dict)
        /\ IF d_buffer = <<>>
             THEN \* buffer[0] raises IndexError
                  /\ d_pc' = "raised" /\ d_err' = "IndexError"
                  /\ UNCHANGED <<d_output, d_new_dict, d_next_code_val,
                                 d_buffer, d_table_data, d_sizes, d_i>>
             ELSE DecompressRegister(current_code, SelfReference(d_buffer))
  /\ initial_code_to_char_dict' =
       DecoderCallerTable(initial_code_to_char_dict, d_new_dict')
  /\ UNCHANGED <<cfgvars, pvars, dictionary, text, code_list, calls, first, cvars>>

\* return output, new_dict, decompression_table_data
DecompressReturn ==
  /\ d_pc = "loop" /\ d_i = Len(code_list)
  /\ d_pc' = "returned"
  /\ UNCHANGED <<cfgvars, pvars, initial_code_to_char_dict,
                 dictionary, text, code_list, calls, first, cvars,
                 d_err, d_i, d_buffer, d_new_dict, d_next_code_val,
                 d_output, d_table_data, d_sizes>>

Next ==
  \/ CompressCall
  \/ CompressAgain
  \/ CompressExtend
  \/ CompressAdmit
  \/ CompressReturn
  \/ DecompressCall
  \/ DecompressRoundTrip
  \/ DecompressKnown
  \/ DecompressUnknown
  \/ DecompressReturn

Spec == Init /\ [][Next]_vars

\* a step of a call that has been entered: a call is a synchronous Python
\* function, once entered it runs on to its return or to its exception
Running ==
  \/ CompressExtend
  \/ CompressAdmit
  \/ CompressReturn
  \/ DecompressKnown
  \/ DecompressUnknown
  \/ DecompressReturn

\* the program with calls that run on; whether a call is made at all is
\* left to the caller
LiveSpec == Spec /\ WF_vars(Running)

\* --------------------------------------------------- ProgramLZW.compress

\* next_code = 256
ProgramFirstCode == 256

\* output[k] = v on the dict "output", kept in insertion order (the order
\* output.items() runs in): a key that is there keeps its place and gets
\* the new value, a new key goes to the end
OutputPut(output, k, v) ==
  IF \E j \in 1..Len(output) : output[j].symbol = k
    THEN [j \in 1..Len(output) |->
            IF output[j].symbol = k THEN [symbol |-> k, memory |-> v]
                                    ELSE output[j]]
    ELSE Append(output, [symbol |-> k, memory |-> v])

\* lines 3-5: the locals of a new call; dictionary is the caller's object
ProgramEnter ==
  /\ p_buffer' = <<>>
  /\ p_output' = <<>>
  /\ p_next_code' = ProgramFirstCode
  /\ p_emitted' = <<>>
  /\ p_before' = dictionary
  /\ p_i' = 0
  /\ p_err' = "none"
  /\ p_pc' = "loop"
  /\ p_calls' = p_calls + 1

\* output = compress(text, dictionary): the first call on the table
ProgramCompressCall ==
  /\ p_pc = "idle" /\ c_pc = "idle" /\ d_pc = "idle" /\ p_calls = 0
  /\ \E t \in Texts(dictionary) : text' = t
  /\ p_first' = p_first
  /\ ProgramEnter
  /\ UNCHANGED <<cfgvars, dictionary, initial_code_to_char_dict, code_list,
                 calls, first, cvars, dvars>>

\* a further call with the same text and the same dictionary object
ProgramCompressAgain ==
  /\ p_pc \in {"returned", "raised"}
  /\ p_calls >= 1 /\ p_calls < MaxCalls
  /\ p_first' = IF p_calls = 1
                  THEN [output |-> p_output, status |-> p_pc]
                  ELSE p_first
  /\ ProgramEnter
  /\ UNCHANGED <<cfgvars, dictionary, initial_code_to_char_dict, text,
                 code_list, calls, first, cvars, dvars>>

\* one iteration of "for current in text", branch "entry in dictionary"
ProgramExtend ==
  /\ p_pc = "loop" /\ p_i < Len(text)
  /\ LET current == text[p_i + 1]
         entry   == Append(p_buffer, current)
     IN /\ entry \in DOMAIN dictionary
        /\ p_buffer' = entry
  /\ p_i' = p_i + 1
  /\ UNCHANGED <<cfgvars, dictionary, initial_code_to_char_dict, text,
                 code_list, calls, first, cvars, dvars,
                 p_pc, p_err, p_output, p_next_code, p_emitted, p_before,
                 p_calls, p_first>>

\* one iteration of "for current in text", branch else: the entry is
\* written into the caller's dictionary
ProgramAdmit ==
  /\ p_pc = "loop" /\ p_i < Len(text)
  /\ LET current == text[p_i + 1]
         entry   == Append(p_buffer, current)
         dict    == Put(dictionary, entry, p_next_code)
     IN /\ entry \notin DOMAIN dictionary
        /\ dictionary' = dict
        /\ p_next_code' = p_next_code + 1
        /\ IF p_buffer \in DOMAIN dict
             THEN /\ p_output' = OutputPut(p_output, p_buffer, dict[p_buffer])
                  /\ p_emitted' = Append(p_emitted, dict[p_buffer])
                  /\ p_buffer' = <<current>>
                  /\ p_i' = p_i + 1
                  /\ UNCHANGED <<p_pc, p_err>>
             ELSE \* dictionary[buffer] raises KeyError
                  /\ p_pc' = "raised"
                  /\ p_err' = "KeyError"
                  /\ UNCHANGED <<p_output, p_emitted, p_buffer, p_i>>
  /\ UNCHANGED <<cfgvars, initial_code_to_char_dict, text,
                 code_list, calls, first, cvars, dvars,
                 p_before, p_calls, p_first>>

\* after the loop: "if buffer:" output w once more, then return output
ProgramReturn ==
  /\ p_pc = "loop" /\ p_i = Len(text)
  /\ IF p_buffer # <<>>
       THEN IF p_buffer \in DOMAIN dictionary
              THEN /\ p_output' =
                        OutputPut(p_output, p_buffer, dictionary[p_buffer])
                   /\ p_emitted' = Append(p_emitted, dictionary[p_buffer])
                   /\ p_pc' = "returned"
                   /\ p_err' = p_err
              ELSE \* dictionary[buffer] raises KeyError
                   /\ p_pc' = "raised"
                   /\ p_err' = "KeyError"
                   /\ UNCHANGED <<p_output, p_emitted>>
       ELSE /\ p_pc' = "returned"
            /\ UNCHANGED <<p_err, p_output, p_emitted>>
  /\ UNCHANGED <<cfgvars, dictionary, initial_code_to_char_dict, text,
                 code_list, calls, first, cvars, dvars,
                 p_i, p_buffer, p_next_code, p_before, p_calls, p_first>>

ProgramNext ==
  \/ ProgramCompressCall
  \/ ProgramCompressAgain
  \/ ProgramExtend
  \/ ProgramAdmit
  \/ ProgramReturn

ProgramSpec == Init /\ [][ProgramNext]_vars

\* ================================================================ claims

\* the mirror of an encode table: code -> sequence
Invert(d) == [c \in Values(d) |-> CHOOSE s \in DOMAIN d : d[s] = c]

Injective(d) == \A s, t \in DOMAIN d : d[s] = d[t] => s = t

\* every symbol of the text is a key of the caller's table
ValidText == \A i \in 1..Len(text) : <<text[i]>> \in DOMAIN dictionary

\* the table's codes are 0..2^size-1 and the decoder is given its mirror
StandardTable ==
  /\ Values(dictionary) = 0..(2 ^ size - 1)
  /\ Injective(dictionary)
  /\ initial_code_to_char_dict = Invert(dictionary)

\* the decoder is given the mirror of the encoder's table and every
\* initial code lies below the first learned code
MatchingTables ==
  /\ \A c \in Values(dictionary) : c < 2 ^ size
  /\ Injective(dictionary)
  /\ initial_code_to_char_dict = Invert(dictionary)

\* decompress is running, or has run, on the codes compress returned
RoundTrip == calls >= 1 /\ d_pc # "idle"

IsEmit(row) == row.sortie # NoSortie
IsAdmit(row) == row.dictionnaire # NoDictionnaire

\* the rows of the encoder's steps that emitted a code / admitted an entry
EmitRows == SelectSeq(c_table_data, IsEmit)
AdmitRows == SelectSeq(c_table_data, IsAdmit)

\* the decoder row i resolved its code through the else branch
IsSelfReference(i) ==
  /\ i >= 2
  /\ d_table_data[i].dictionnaire.code = <<d_table_data[i].code>>

\* C1: round trip - for every text over the table's alphabet, the empty one
\* included, and a table with codes 0..2^size-1, decompress of the codes of
\* compress with the mirrored table returns exactly the text
C1_RoundTrip ==
  (StandardTable /\ ValidText /\ c_pc = "returned" /\ RoundTrip
     /\ d_pc # "loop")
    => (d_pc = "returned" /\ d_output = text)

\* C2: synchronisation - the entry the decoder resolves for the i-th code
\* is the buffer w the encoder held when it emitted the i-th code
C2_Synchronised ==
  (MatchingTables /\ RoundTrip)
    => /\ Len(d_table_data) <= Len(EmitRows)
       /\ \A i \in 1..Len(d_table_data) :
            /\ d_table_data[i].code = c_output_codes[i]
            /\ d_table_data[i].entry = EmitRows[i].w

C2_Witness ==
  /\ MatchingTables /\ RoundTrip /\ d_pc = "returned"
  /\ Len(d_table_data) >= 3
  /\ \E i \in 1..Len(d_table_data) : IsSelfReference(i)
  /\ \E i \in 2..Len(d_table_data) : ~IsSelfReference(i)
\* the keys of the decoder's dictionary when it read its i-th code
KeysBefore(i) ==
  (DOMAIN initial_code_to_char_dict)
    \cup {d_table_data[j].dictionnaire.code[1] : j \in 2..(i - 1)}

\* the i-th code was neither a key nor the decoder's next_code
CorruptAt(i) ==
  /\ i >= 2
  /\ d_table_data[i].code \notin KeysBefore(i)
  /\ <<d_table_data[i].code>> # d_table_data[i].dictionnaire.code

\* C3: a code list holding, after its first code, a code that is neither a
\* key of the decoder's dictionary nor its next_code makes decompress fail
\* with CorruptStream: once such a code has been treated the call has failed
C3_CorruptStream ==
  (\E i \in 1..Len(d_table_data) : CorruptAt(i))
    => (d_pc = "raised" /\ d_err = "CorruptStream")

\* C4: compress of a text holding a symbol that is no key of the table
\* fails with InvalidInput and returns no codes
C4_InvalidInput ==
  (~ValidText /\ c_pc \notin {"idle", "loop"})
    => (c_pc = "raised" /\ c_err = "InvalidInput")

C6_SameDictionaries ==
  (MatchingTables /\ RoundTrip)
    => /\ Len(d_table_data) - 1 <= Len(AdmitRows)
       /\ \A k \in 1..(Len(d_table_data) - 1) :
            /\ d_table_data[k + 1].dictionnaire = AdmitRows[k].dictionnaire
            /\ d_new_dict[AdmitRows[k].dictionnaire.code[1]] =
                 AdmitRows[k].dictionnaire.entry
       /\ d_pc = "returned"
            => (Injective(c_new_dict) /\ d_new_dict = Invert(c_new_dict))

C6_Witness ==
  /\ MatchingTables /\ RoundTrip /\ d_pc = "returned"
  /\ Len(AdmitRows) >= 3
  /\ DictLen(d_new_dict) = DictLen(initial_code_to_char_dict) + Len(AdmitRows)

\* C7: a second compress call with the same text, table object and size
\* ends as the first one did, with the same codes and the same final table
C7_Deterministic ==
  (calls >= 2 /\ c_pc \in {"returned", "raised"})
    => /\ first.status = c_pc
       /\ c_pc = "returned"
            => (c_output_codes = first.codes /\ c_new_dict = first.table)

C7_Witness ==
  /\ calls >= 2 /\ c_pc = "returned"
  /\ Len(AdmitRows) >= 2
  /\ c_output_codes = first.codes

\* C8: the empty text gives no code, no flush and the initial table; a text
\* of one symbol of the table gives that symbol's initial code alone and a
\* table without learned entry
C8_Boundary ==
  /\ (text = <<>> /\ c_pc \notin {"idle", "loop"})
       => /\ c_pc = "returned"
          /\ c_output_codes = <<>>
          /\ c_table_data = <<>>
          /\ c_new_dict = dictionary
  /\ (Len(text) = 1 /\ ValidText /\ c_pc \notin {"idle", "loop"})
       => /\ c_pc = "returned"
          /\ c_output_codes = <<dictionary[text]>>
          /\ c_new_dict = dictionary

C8_Witness ==
  /\ Len(text) = 1 /\ ValidText /\ c_pc = "returned"
  /\ Len(c_output_codes) = 1

\* C9: decompress of the empty code list returns the empty text and the
\* seed table, without raising
C9_EmptyDecode ==
  (code_list = <<>> /\ d_pc \notin {"idle", "loop"})
    => /\ d_pc = "returned"
       /\ d_output = <<>>
       /\ d_new_dict = initial_code_to_char_dict

ABABABA == <<"A", "B", "A", "B", "A", "B", "A">>

\* compress("ABABABA", {"A": 65, "B": 66}, 8) has ended
EncodeScenario ==
  /\ size = 8 /\ dictionary = TestDictionary /\ text = ABABABA
  /\ c_pc \notin {"idle", "loop"}

\* the entries of new_dict that the caller's table does not hold
Learned == [s \in (DOMAIN c_new_dict) \ (DOMAIN dictionary) |-> c_new_dict[s]]

\* C10 (as claimed): the scenario emits [65, 66, 256, 257, 65] and learns
\* exactly 256 = "AB" and 257 = "BA"
C10_EncodeScenario ==
  EncodeScenario
    => /\ c_pc = "returned"
       /\ c_output_codes = <<65, 66, 256, 257, 65>>
       /\ Learned = (<<"A", "B">> :> 256) @@ (<<"B", "A">> :> 257)

\* C10 (amended): the scenario emits [65, 66, 256, 258] and learns exactly
\* 256 = "AB", 257 = "BA" and 258 = "ABA"
C10_EncodeScenarioAmended ==
  EncodeScenario
    => /\ c_pc = "returned"
       /\ c_output_codes = <<65, 66, 256, 258>>
       /\ Learned = (<<"A", "B">> :> 256) @@ (<<"B", "A">> :> 257)
                      @@ (<<"A", "B", "A">> :> 258)

C10_Witness == EncodeScenario /\ c_pc = "returned" /\ Len(c_output_codes) = 4

\* decompress([65, 66, 256, 258], {65: "A", 66: "B"}, 8) is running or over
DecodeScenario ==
  /\ size = 8 /\ initial_code_to_char_dict = TestCodeToChar
  /\ code_list = <<65, 66, 256, 258>>
  /\ d_pc # "idle"

\* C11: the decode scenario [65, 66, 256, 258] ends without error; 258 is
\* absent from the dictionary and equal to next_code when it is read, its
\* entry is rebuilt as "AB" + "A" and the returned text is "ABABABA"
C11_DecodeScenario ==
  DecodeScenario
    => /\ d_pc \in {"loop", "returned"}
       /\ d_err = "none"
       /\ (d_pc = "loop" /\ d_i = 3)
            => /\ ~CodeKnown(258, d_new_dict)
               /\ d_next_code_val = 258
               /\ d_buffer = <<"A", "B">>
       /\ d_i = 4
            => /\ d_table_data[4].w = <<"A", "B">>
               /\ d_table_data[4].entry = <<"A", "B", "A">>
               /\ d_output = ABABABA
       /\ d_pc = "returned" => d_i = 4

C11_Witness ==
  /\ DecodeScenario /\ d_pc = "returned" /\ calls = 0
  /\ d_output = ABABABA

\* the working dictionaries hold entries the callers' tables do not hold
GrownApart ==
  /\ (c_pc # "idle" /\ c_next_code > FirstCode(size))
       => (DOMAIN c_new_dict) \ (DOMAIN dictionary) # {}
  /\ (d_pc # "idle" /\ d_next_code_val > FirstCode(size))
       => (DOMAIN d_new_dict) \ (DOMAIN initial_code_to_char_dict) # {}

\* C12: no step of compress or decompress, successful or failing, changes
\* the table the caller passed, and the table a call works on and returns
\* is another object: its learned entries never show in the caller's table
C12_Frame ==
  /\ [][/\ dictionary' = dictionary
        /\ initial_code_to_char_dict' = initial_code_to_char_dict]_vars
  /\ []GrownApart

C12_Witness ==
  /\ calls >= 2 /\ d_pc = "returned"
  /\ DictLen(c_new_dict) > DictLen(dictionary)
  /\ DictLen(d_new_dict) > DictLen(initial_code_to_char_dict)
  /\ \E cfg \in Configs :
       /\ cfg.size = size
       /\ cfg.dictionary = dictionary
       /\ cfg.code_to_char = initial_code_to_char_dict

\* the entries of the decoder's new_dict that its seed table does not hold
DecLearned ==
  [c \in (DOMAIN d_new_dict) \ (DOMAIN initial_code_to_char_dict) |->
     d_new_dict[c]]

\* the learned codes of both dictionaries are 2^size .. next_code - 1, one
\* sequence each, handed out in the order of the admissions
CodesInOrder ==
  /\ c_pc # "idle"
       => /\ Values(Learned) = (2 ^ size)..(c_next_code - 1)
          /\ DictLen(Learned) = c_next_code - 2 ^ size
          /\ \A k \in 1..Len(AdmitRows) :
               AdmitRows[k].dictionnaire.code = <<2 ^ size + k - 1>>
  /\ d_pc # "idle"
       => /\ DOMAIN DecLearned = (2 ^ size)..(d_next_code_val - 1)
          /\ \A k \in 2..Len(d_table_data) :
               d_table_data[k].dictionnaire.code = <<2 ^ size + k - 2>>

\* a step of a running call either leaves the dictionary and next_code as
\* they are or gives one new key the code next_code and adds one to it
CodeAssignment ==
  /\ (c_pc # "loop" /\ c_pc' = "loop") => c_next_code' = 2 ^ size
  /\ (d_pc = "idle" /\ d_pc' # "idle") => d_next_code_val' = 2 ^ size
  /\ c_pc = "loop"
       => IF c_new_dict' = c_new_dict
            THEN c_next_code' = c_next_code
            ELSE /\ \E s \in (DOMAIN c_new_dict') \ (DOMAIN c_new_dict) :
                      c_new_dict' = Put(c_new_dict, s, c_next_code)
                 /\ c_next_code' = c_next_code + 1
  /\ d_pc = "loop"
       => IF d_new_dict' = d_new_dict
            THEN d_next_code_val' = d_next_code_val
            ELSE /\ d_next_code_val \notin DOMAIN d_new_dict
                 /\ DOMAIN d_new_dict' = (DOMAIN d_new_dict) \cup {d_next_code_val}
                 /\ \A c \in DOMAIN d_new_dict : d_new_dict'[c] = d_new_dict[c]
                 /\ d_next_code_val' = d_next_code_val + 1

\* C13: in every run of compress and of decompress the learned entries get
\* the codes 2^size, 2^size + 1, ... in the order of their admission: an
\* admission uses next_code and adds one to it, nothing else changes
\* next_code, and no code goes to two sequences
C13_CodesIncrease == []CodesInOrder /\ [][CodeAssignment]_vars

C13_Witness ==
  /\ RoundTrip /\ d_pc = "returned"
  /\ c_next_code >= 2 ^ size + 3
  /\ d_next_code_val >= 2 ^ size + 3

\* a symbol the encoder has consumed is no key of the caller's table
ConsumedUnknown ==
  \E i \in 1..c_i : <<text[i]>> \notin DOMAIN dictionary

\* a key of the encoder's dictionary holds a symbol unknown to the table
AdmittedUnknown ==
  \E s \in DOMAIN c_new_dict :
    \E i \in 1..Len(s) : <<s[i]>> \notin DOMAIN dictionary

\* C14: a failure is raised at the very step that reads the offending
\* symbol or code, before any entry is admitted or anything is emitted for
\* it: no step gets past an unknown symbol, no entry ever holds one, and no
\* row is recorded for a corrupt code
C14_AllOrNothing ==
  /\ (c_pc # "idle" /\ ConsumedUnknown) => c_pc = "raised"
  /\ c_pc # "idle" => ~AdmittedUnknown
  /\ \A i \in 1..Len(d_table_data) : ~CorruptAt(i)

\* C15: for the size typed in, main seeds the encoder with a table and the
\* decoder with a table that both cover exactly the first 2^size symbols,
\* codes 0 .. 2^size - 1, and that mirror each other
C15_InitialTables ==
  origin = "main"
    => /\ DOMAIN dictionary = {<<chr(i)>> : i \in 0..(2 ^ size - 1)}
       /\ DOMAIN initial_code_to_char_dict = 0..(2 ^ size - 1)
       /\ Injective(dictionary)
       /\ initial_code_to_char_dict = Invert(dictionary)

\* an iteration of the encoder's loop that ran to its end
EncoderStep == c_pc = "loop" /\ c_pc' = "loop" /\ c_i' = c_i + 1

\* the iteration extended the match or admitted w + c, as claimed
ExtendOrAdmit ==
  LET c  == text[c_i + 1]
      wc == Append(c_buffer, c)
  IN \/ /\ wc \in DOMAIN c_new_dict
        /\ c_buffer' = wc
        /\ c_output_codes' = c_output_codes
        /\ c_new_dict' = c_new_dict
     \/ /\ wc \notin DOMAIN c_new_dict
        /\ DOMAIN c_new_dict' = (DOMAIN c_new_dict) \cup {wc}
        /\ \A s \in DOMAIN c_new_dict : c_new_dict'[s] = c_new_dict[s]
        /\ c_output_codes' = Append(c_output_codes, c_new_dict[c_buffer])
        /\ c_buffer' = <<c>>

\* compress returned: one code more than learned entries
OneCodeMore ==
  (c_pc = "returned" /\ ValidText /\ text # <<>>)
    => Len(c_output_codes) = DictLen(Learned) + 1

\* C16: an encoder step on a symbol c either extends (w + c is a key: w
\* becomes w + c, nothing is emitted, the dictionary stays) or admits (w + c
\* is no key: it is the one entry added, the code of w is the one code
\* emitted, w becomes c); hence a non-empty valid text gives one code more
\* than learned entries
C16_ExtendOrAdmit ==
  /\ [][EncoderStep => ExtendOrAdmit]_vars
  /\ []OneCodeMore

C16_Witness ==
  /\ c_pc = "returned" /\ ValidText
  /\ Len(AdmitRows) >= 2
  /\ Len(c_table_data) > Len(EmitRows)
  /\ Len(c_output_codes) = Len(AdmitRows) + 1

\* the initial codes are one per symbol and below the first learned code
EncoderTableValid ==
  /\ \A c \in Values(dictionary) : c < 2 ^ size
  /\ Injective(dictionary)

\* the sequences a code -> sequence table gives to the codes, concatenated
RECURSIVE Expand(_, _)
Expand(codes, c2s) ==
  IF codes = <<>> THEN <<>>
  ELSE c2s[Head(codes)] \o Expand(Tail(codes), c2s)

\* the step after the last symbol of a valid text, taken with a non-empty w
FlushStep ==
  /\ c_pc = "loop" /\ c_i = Len(text) /\ c_pc' # "loop"
  /\ ValidText /\ c_buffer # <<>>

\* the flush emits the code of w and nothing else changes
FlushEmits ==
  /\ c_pc' = "returned"
  /\ c_output_codes' = Append(c_output_codes, c_new_dict[c_buffer])
  /\ c_new_dict' = c_new_dict
  /\ c_next_code' = c_next_code

\* the emitted codes spell the text in the final table
CodesSpellText ==
  (c_pc = "returned" /\ ValidText /\ EncoderTableValid)
    => /\ Injective(c_new_dict)
       /\ Expand(c_output_codes, Invert(c_new_dict)) = text

\* C17: once all symbols are consumed with a non-empty w, compress emits one
\* more code, the code of w, and adds no entry; for every valid text the
\* sequences the final table gives to the emitted codes, put end to end in
\* emission order, are the text
C17_FinalFlush ==
  /\ [][FlushStep => FlushEmits]_vars
  /\ []CodesSpellText

C17_Witness ==
  /\ c_pc = "returned" /\ ValidText /\ EncoderTableValid
  /\ Len(text) >= 5
  /\ Len(c_buffer) >= 2
  /\ c_output_codes[Len(c_output_codes)] >= 2 ^ size

\* the decoder is about to read a code that is no key of its dictionary
ReadsAbsentCode ==
  /\ d_pc = "loop" /\ d_i < Len(code_list)
  /\ ~CodeKnown(code_list[d_i + 1], d_new_dict)

\* C18: replaying the codes of compress, a code the decoder reads that is
\* absent from its dictionary is its current next_code, never a larger
\* one: the self-reference entry is only built for the code about to be
\* defined
C18_AbsentIsNextCode ==
  (MatchingTables /\ RoundTrip)
    => /\ ReadsAbsentCode => code_list[d_i + 1] = d_next_code_val
       /\ \A i \in 2..Len(d_table_data) :
            d_table_data[i].code \notin KeysBefore(i)
              => /\ IsSelfReference(i)
                 /\ d_table_data[i].entry =
                      Append(d_table_data[i - 1].entry,
                             d_table_data[i - 1].entry[1])

C18_Witness ==
  /\ MatchingTables /\ RoundTrip /\ ReadsAbsentCode
  /\ d_i >= 2
  /\ code_list[d_i + 1] = d_next_code_val

\* C19: the first code compress gives for a non-empty valid text is the
\* initial code of its first symbol, below 2^size, so the decoder's lookup
\* of the first code succeeds; a code list whose first code is no key of
\* the initial table makes decompress fail with no output made
C19_FirstCode ==
  /\ (ValidText /\ text # <<>> /\ c_pc = "returned")
       => /\ c_output_codes # <<>>
          /\ c_output_codes[1] = dictionary[<<text[1]>>]
  /\ (MatchingTables /\ ValidText /\ text # <<>> /\ c_pc = "returned")
       => /\ c_output_codes[1] < 2 ^ size
          /\ c_output_codes[1] \in DOMAIN initial_code_to_char_dict
          /\ RoundTrip
               => /\ d_pc \in {"loop", "returned"}
                  /\ d_table_data[1].code = c_output_codes[1]
                  /\ d_table_data[1].entry = <<text[1]>>
  /\ (d_pc # "idle" /\ code_list # <<>>
        /\ code_list[1] \notin DOMAIN initial_code_to_char_dict)
       => /\ d_pc = "raised"
          /\ d_output = <<>>
          /\ d_table_data = <<>>
          /\ d_new_dict = initial_code_to_char_dict

C19_Witness ==
  /\ MatchingTables /\ ValidText /\ RoundTrip /\ d_pc = "returned"
  /\ Len(text) >= 3
  /\ c_output_codes[1] < 2 ^ size
  /\ c_output_codes[2] >= 2 ^ size

\* a typed-in list starting with a learned code has been refused
C19_WitnessRefused ==
  /\ calls = 0 /\ d_pc = "raised" /\ d_err = "KeyError"
  /\ Len(code_list) >= 2

\* the decoder has treated d_i >= 1 codes
Decoding == d_pc \in {"loop", "returned"}

\* the entry registered with the k-th code, k >= 2, as the rule gives it
GrowthRule(k) ==
  LET row == d_table_data[k]
      previous_entry == d_table_data[k - 1].entry
  IN /\ row.w = previous_entry
     /\ row.new_dict_entry_string = Append(previous_entry, row.entry[1])
     /\ row.dictionnaire =
          [code |-> <<2 ^ size + k - 2>>, entry |-> row.new_dict_entry_string]
     /\ d_new_dict[2 ^ size + k - 2] = row.new_dict_entry_string
     /\ d_sizes[k] = d_sizes[k - 1] + 1

\* C20: the first code adds no entry; every later code adds one entry, at
\* the current next_code, made of previous_entry + entry[0], and then
\* previous_entry becomes entry; after n >= 1 codes the decoder's dictionary
\* has its initial size + n - 1 entries
C20_DecoderGrowth ==
  Decoding
    => /\ d_i >= 1 /\ Len(d_table_data) = d_i /\ Len(d_sizes) = d_i
       /\ d_sizes[1] = DictLen(initial_code_to_char_dict)
       /\ d_table_data[1].dictionnaire.code = <<>>
       /\ \A k \in 2..d_i : GrowthRule(k)
       /\ d_buffer = d_table_data[d_i].entry
       /\ d_next_code_val = 2 ^ size + d_i - 1
       /\ DictLen(d_new_dict) = DictLen(initial_code_to_char_dict) + d_i - 1

C20_Witness ==
  /\ Decoding /\ calls = 0 /\ d_i >= 4
  /\ \E k \in 2..d_i : IsSelfReference(k)
  /\ \E k \in 2..d_i : ~IsSelfReference(k)

\* the encoder has run at least one iteration of its loop
EncoderStepped == c_pc # "idle" /\ c_i >= 1

\* C21: for a text whose symbols are all keys of the initial table, after
\* every encoder step the buffer w is non-empty and a key of the working
\* dictionary, so the lookups of the code of w never fail and compress
\* never raises
C21_BufferIsKey ==
  ValidText
    => /\ c_pc # "raised" /\ c_err = "none"
       /\ EncoderStepped
            => (c_buffer # <<>> /\ c_buffer \in DOMAIN c_new_dict)

C21_Witness ==
  /\ ValidText /\ c_pc = "loop" /\ c_i = Len(text)
  /\ Len(text) >= 4
  /\ Len(c_buffer) >= 2
  /\ Len(AdmitRows) >= 2

\* the encoder's initial codes are exactly 0 .. 2^size - 1, one per symbol
EncoderTableExact ==
  /\ Values(dictionary) = 0..(2 ^ size - 1)
  /\ Injective(dictionary)

\* the decoder's initial codes are exactly 0 .. 2^size - 1, one per symbol
DecoderTableExact ==
  /\ DOMAIN initial_code_to_char_dict = 0..(2 ^ size - 1)
  /\ Injective(initial_code_to_char_dict)

\* the encoder's dictionary keeps the initial entries, gives the learned
\* sequences codes that are no initial code, and is one-to-one
EncoderOneToOne ==
  /\ \A s \in DOMAIN dictionary :
       s \in DOMAIN c_new_dict /\ c_new_dict[s] = dictionary[s]
  /\ \A s \in DOMAIN Learned : Learned[s] \notin Values(dictionary)
  /\ Injective(c_new_dict)
  /\ \A j, k \in 1..Len(AdmitRows) :
       AdmitRows[j].dictionnaire.entry = AdmitRows[k].dictionnaire.entry
         => j = k

\* the decoder's dictionary keeps the initial entries and gives the learned
\* sequences codes that are no initial code
DecoderKeepsInitial ==
  /\ \A c \in DOMAIN initial_code_to_char_dict :
       c \in DOMAIN d_new_dict /\ d_new_dict[c] = initial_code_to_char_dict[c]
  /\ \A k \in 2..Len(d_table_data) :
       d_table_data[k].dictionnaire.code[1]
         \notin DOMAIN initial_code_to_char_dict

\* no sequence is in the decoder's dictionary under two codes and none was
\* registered twice
DecoderOneToOne ==
  /\ Injective(d_new_dict)
  /\ \A j, k \in 2..Len(d_table_data) :
       d_table_data[j].new_dict_entry_string
           = d_table_data[k].new_dict_entry_string
         => j = k

\* C22 (as claimed): for an initial table with the codes 0 .. 2^size - 1,
\* in every state of compress and of decompress the working dictionary is
\* one-to-one: no learned code is an initial code, no initial entry is
\* overwritten, no sequence is admitted twice
C22_OneToOne ==
  /\ (EncoderTableExact /\ c_pc # "idle") => EncoderOneToOne
  /\ (DecoderTableExact /\ d_pc # "idle")
       => (DecoderKeepsInitial /\ DecoderOneToOne)

\* C22 (amended): the same for compress, and for decompress on the codes
\* compress returned for the mirrored table; on any other code list
\* decompress still keeps the initial entries and gives learned sequences
\* codes that are no initial code, but may register a sequence twice
C22_OneToOneReplay ==
  /\ (EncoderTableExact /\ c_pc # "idle") => EncoderOneToOne
  /\ (DecoderTableExact /\ d_pc # "idle") => DecoderKeepsInitial
  /\ (EncoderTableExact /\ MatchingTables /\ RoundTrip) => DecoderOneToOne

C22_Witness ==
  /\ EncoderTableExact /\ MatchingTables /\ RoundTrip /\ d_pc = "returned"
  /\ size >= 1
  /\ DictLen(Learned) >= 3
  /\ DictLen(DecLearned) >= 3

\* a typed-in list of known codes has made the decoder register a sequence
\* under two codes
C22_WitnessTwice ==
  /\ DecoderTableExact /\ calls = 0 /\ d_pc = "returned"
  /\ DecoderKeepsInitial /\ ~DecoderOneToOne
  /\ \A i \in 1..Len(d_table_data) : ~CorruptAt(i)

\* every non-empty proper prefix of a key of d is a key of d
PrefixClosed(d) ==
  \A s \in DOMAIN d :
    \A n \in 1..(Len(s) - 1) : SubSeq(s, 1, n) \in DOMAIN d

\* C23: in every reachable state the encoder's dictionary is prefix-closed
\* (each non-empty proper prefix of a key is a key) and every learned
\* sequence has length at least 2
C23_PrefixClosed ==
  c_pc # "idle"
    => /\ PrefixClosed(c_new_dict)
       /\ \A s \in DOMAIN Learned : Len(s) >= 2

\* C24: compress never emits more codes than it has read symbols: at every
\* point of a run the emitted codes are at most as many as the symbols
\* consumed, and a call that returns has given at most len(text) codes, at
\* least one when the text is non-empty
C24_CodesAtMostSymbols ==
  c_pc # "idle"
    => /\ c_i <= Len(text)
       /\ Len(c_output_codes) <= c_i
       /\ c_pc = "returned"
            => /\ c_i = Len(text)
               /\ Len(c_output_codes) <= Len(text)
               /\ text # <<>> => Len(c_output_codes) >= 1

C24_Witness ==
  /\ c_pc = "returned" /\ Len(text) >= 3
  /\ Len(c_output_codes) = Len(text)
  /\ Len(EmitRows) = Len(AdmitRows) + 1

\* compress has been entered on a text whose symbols are all keys
EncodingValid == c_pc = "loop" /\ ValidText

\* decompress has been called on the codes compress returned for a valid
\* text, with the mirrored table
DecodingValid == RoundTrip /\ MatchingTables /\ ValidText

\* compress returned after len(text) iterations and at most one flush
EncoderDone ==
  /\ c_pc = "returned" /\ c_i = Len(text)
  /\ Len(c_table_data) \in {Len(text), Len(text) + 1}

\* decompress returned after treating each code once
DecoderDone ==
  /\ d_pc = "returned" /\ d_i = Len(code_list)
  /\ Len(d_table_data) = Len(code_list)

\* a call on a valid input that is over is over by its return
EndsByReturn ==
  /\ (ValidText /\ c_pc \notin {"idle", "loop"}) => EncoderDone
  /\ (DecodingValid /\ d_pc # "loop") => DecoderDone

\* C25: termination - on a valid text compress ends by its return after
\* exactly len(text) iterations and at most one flush, and decompress of
\* the n codes ends by its return after treating each code once; neither
\* loops or stalls, a run always reaches its return
C25_Termination ==
  /\ []EndsByReturn
  /\ EncodingValid ~> EncoderDone
  /\ DecodingValid ~> DecoderDone

\* C26: ProgramLZW.compress returns the emitted codes as one output entry
\* per emission, in emission order: at every point of a call the output has
\* as many entries as codes were emitted (admit steps and the final flush),
\* and its j-th entry holds the j-th code emitted
C26_EntryPerEmission ==
  p_pc # "idle"
    => /\ Len(p_output) = Len(p_emitted)
       /\ \A j \in 1..Len(p_output) : p_output[j].memory = p_emitted[j]

\* a call of ProgramLZW.compress has ended
ProgramEnded == p_pc \in {"returned", "raised"}

\* C27: ProgramLZW.compress builds its dictionary fresh for each call: the
\* dictionary object the caller passed holds after the call exactly the
\* entries it held before, and a second call with the same text and the
\* same dictionary object ends as the first one did, with the same output
C27_FreshDictionary ==
  /\ ProgramEnded => dictionary = p_before
  /\ (ProgramEnded /\ p_calls >= 2)
       => /\ p_first.status = p_pc
          /\ p_pc = "returned" => p_output = p_first.output
====
